---- MODULE Spec2Model ----
(***************************************************************************)
(* Blog API (FastAPI + SQLAlchemy on SQLite): the stored rows, the request *)
(* handlers of main.py and the visibility / mutation rules they apply.     *)
(***************************************************************************)
EXTENDS Bags, FiniteSets, Integers, Sequences, TLC

VARIABLES users, statuses, posts, tags, post_tags, comments, likes, resp, reqs

db == <<users, statuses, posts, tags, post_tags, comments, likes>>
vars == <<users, statuses, posts, tags, post_tags, comments, likes, resp, reqs>>

(* ---------------- bounds of the model ---------------- *)
MaxPosts == 2
MaxTags == 2
MaxComments == 1
MaxUsers == 5
MaxReqs == 2
MaxStatuses == 3
MaxSessions == 4

(* ---------------- values ---------------- *)
Anon == 0

Max(S) == CHOOSE x \in S : \A y \in S : y <= x
Min(S) == CHOOSE x \in S : \A y \in S : x <= y

\* INTEGER PRIMARY KEY of SQLite: a new row gets the largest id in use plus one.
NextId(ids) == IF ids = {} THEN 1 ELSE Max(ids) + 1

Put(f, k, v) == [x \in DOMAIN f \cup {k} |-> IF x = k THEN v ELSE f[x]]
Drop(f, ks) == [x \in DOMAIN f \ ks |-> f[x]]
Range(s) == {s[i] : i \in DOMAIN s}

\* The last response sent: operation, caller, addressed id, HTTP status code,
\* returned post ids, and the other fields of the body; query is the search or
\* status parameter of a listing, the tags field of an update_post body, the
\* comment id of a comment route.
NoInfo == [total |-> 0, pages |-> 0, current_page |-> 0, is_liked |-> FALSE, likes_count |-> 0]
NoResp == [op |-> "init", who |-> Anon, target |-> 0, query |-> <<>>, code |-> 0, items |-> <<>>, info |-> NoInfo]
Resp(op, who, target, code, items) ==
    [op |-> op, who |-> who, target |-> target, query |-> <<>>, code |-> code, items |-> items, info |-> NoInfo]

(* ---------------- seed data ---------------- *)
\* init_db: the admin account and the two statuses, draft (id 1) and published (id 2).
\* The stored form of a password: get_password_hash, never the plain text.
get_password_hash(pw) == <<"$2b$">> \o pw
GoodPassword == <<"P", "a", "s", "s", "w", "0", "r", "d">>
AdminUser == [username |-> "admin", email |-> "admin@example.com", role |-> "admin",
              password |-> get_password_hash(<<"a", "d", "m", "i", "n", "1", "2", "3">>)]
SeedStatuses == <<"draft", "published">>

\* Two accounts registered through /auth/register on top of the seed data.
Bob == [username |-> "bob", email |-> "bob@example.com", role |-> "author",
        password |-> get_password_hash(GoodPassword)]
Eve == [username |-> "eve", email |-> "eve@example.com", role |-> "reader",
        password |-> get_password_hash(GoodPassword)]

Init ==
    /\ users = <<AdminUser, Bob, Eve>>
    /\ statuses = SeedStatuses
    /\ posts = <<>>
    /\ tags = <<>>
    /\ post_tags = EmptyBag
    /\ comments = <<>>
    /\ likes = EmptyBag
    /\ resp = NoResp
    /\ reqs = <<>>

(* ---------------- policy helpers ---------------- *)
check_resource_permission(u, owner) ==
    IF users[u].role = "admin" THEN TRUE ELSE u = owner

\* The Tag rows currently linked to post p (the loaded Post.tags collection).
TagsOf(p) == {t \in DOMAIN tags : CopiesIn(<<p, t>>, post_tags) > 0}

\* for tag_name in tags: look the name up, insert a Tag when there is none.
RECURSIVE ResolveTags(_, _, _)
ResolveTags(names, tgs, ids) ==
    IF names = <<>> THEN [tags |-> tgs, ids |-> ids]
    ELSE LET found == {t \in DOMAIN tgs : tgs[t] = Head(names)}
         IN  IF found # {}
             THEN ResolveTags(Tail(names), tgs, Append(ids, Min(found)))
             ELSE LET new == NextId(DOMAIN tgs)
                  IN  ResolveTags(Tail(names), Put(tgs, new, Head(names)), Append(ids, new))

\* One post_tags row per element of the appended list.
RECURSIVE LinkRows(_, _)
LinkRows(p, ids) ==
    IF ids = <<>> THEN EmptyBag
    ELSE SetToBag({<<p, Head(ids)>>}) (+) LinkRows(p, Tail(ids))

(* ---------------- handlers ---------------- *)
\* create_post without the status lookup.
status_exists_unchecked(id) == TRUE

\* db.query(Status).filter(Status.id == post.status_id).first()
status_exists(id) == id \in DOMAIN statuses

create_post(u, body) ==
    IF ~status_exists(body.status_id)
    THEN /\ resp' = Resp("create_post", u, 0, 404, <<>>)
         /\ UNCHANGED db
    ELSE LET new == NextId(DOMAIN posts)
             r == ResolveTags(body.tags, tags, <<>>)
         IN  /\ Cardinality(DOMAIN posts) < MaxPosts
             /\ Cardinality(DOMAIN r.tags) <= MaxTags
             /\ posts' = Put(posts, new, [title |-> body.title, content |-> body.content,
                                          author_id |-> u, status_id |-> body.status_id])
             /\ tags' = r.tags
             /\ post_tags' = post_tags (+) LinkRows(new, r.ids)
             /\ resp' = Resp("create_post", u, new, 201, <<new>>)
             /\ UNCHANGED <<users, statuses, comments, likes>>

\* A field of a partial-update body: left out, sent as JSON null, or sent with a value.
U == [kind |-> "unset"]
N == [kind |-> "null"]
V(x) == [kind |-> "val", val |-> x]
Patch(field, old) == IF field.kind = "val" THEN field.val ELSE old

\* NULL in the nullable column Post.status_id.
Null == 0

\* post_update.dict() without exclude_unset: an omitted field arrives as None.
PatchNullable_unset_as_null(field, old) == IF field.kind = "val" THEN field.val ELSE Null

\* setattr over dict(exclude_unset=True) on a nullable column: an omitted field
\* keeps the stored value, a supplied null is stored as NULL.
PatchNullable(field, old) ==
    IF field.kind = "val" THEN field.val ELSE IF field.kind = "null" THEN Null ELSE old

\* update_post without "db_post.tags = []": the named tags are added to the old ones.
RelinkRows_append(p, ids) ==
    post_tags (+) LinkRows(p, SelectSeq(ids, LAMBDA t : CopiesIn(<<p, t>>, post_tags) = 0))

\* The flush of a replaced Post.tags collection: rows of tags no longer in the
\* list are deleted, one row is inserted per occurrence of a tag that was not
\* linked before, rows of tags that stay are left alone.
RelinkRows(p, ids) ==
    LET old == TagsOf(p)
        kept == [e \in {e \in BagToSet(post_tags) : e[1] # p \/ e[2] \in Range(ids)} |-> post_tags[e]]
        added == SelectSeq(ids, LAMBDA t : t \notin old)
    IN  kept (+) LinkRows(p, added)

\* The DELETE of a post_tags row is expected to match exactly one row; with the
\* same (post, tag) pair stored twice the unit of work raises StaleDataError.
StaleLinks(p, removed) == \E t \in removed : CopiesIn(<<p, t>>, post_tags) > 1

update_post(u, p, body) ==
    IF p \notin DOMAIN posts
    THEN /\ resp' = [Resp("update_post", u, p, 404, <<>>) EXCEPT !.query = body.tags]
         /\ UNCHANGED db
    ELSE IF ~check_resource_permission(u, posts[p].author_id)
    THEN /\ resp' = [Resp("update_post", u, p, 403, <<>>) EXCEPT !.query = body.tags]
         /\ UNCHANGED db
    ELSE LET r == IF body.tags.kind = "val" THEN ResolveTags(body.tags.val, tags, <<>>)
                  ELSE [tags |-> tags, ids |-> <<>>]
             notnull == body.title.kind # "null" /\ body.content.kind # "null"
             stale == body.tags.kind = "val" /\ StaleLinks(p, TagsOf(p) \ Range(r.ids))
         IN  /\ Cardinality(DOMAIN r.tags) <= MaxTags
             /\ IF notnull /\ ~stale
                THEN /\ posts' = [posts EXCEPT ![p] =
                                    [title |-> Patch(body.title, @.title),
                                     content |-> Patch(body.content, @.content),
                                     author_id |-> @.author_id,
                                     status_id |-> PatchNullable(body.status_id, @.status_id)]]
                     /\ tags' = r.tags
                     /\ post_tags' = IF body.tags.kind = "val" THEN RelinkRows(p, r.ids) ELSE post_tags
                     /\ resp' = [Resp("update_post", u, p, 200, <<p>>) EXCEPT !.query = body.tags]
                     /\ UNCHANGED <<users, statuses, comments, likes>>
                ELSE \* IntegrityError / StaleDataError: except Exception -> rollback, 500
                     /\ resp' = [Resp("update_post", u, p, 500, <<>>) EXCEPT !.query = body.tags]
                     /\ UNCHANGED db

\* delete_post that removes the Post row alone, with no cascade.
delete_post_row_only(u, p) ==
    IF p \notin DOMAIN posts
    THEN /\ resp' = Resp("delete_post", u, p, 404, <<>>)
         /\ UNCHANGED db
    ELSE IF ~check_resource_permission(u, posts[p].author_id)
    THEN /\ resp' = Resp("delete_post", u, p, 403, <<>>)
         /\ UNCHANGED db
    ELSE /\ posts' = Drop(posts, {p})
         /\ resp' = Resp("delete_post", u, p, 200, <<>>)
         /\ UNCHANGED <<users, statuses, tags, post_tags, comments, likes>>

delete_post(u, p) ==
    IF p \notin DOMAIN posts
    THEN /\ resp' = Resp("delete_post", u, p, 404, <<>>)
         /\ UNCHANGED db
    ELSE IF ~check_resource_permission(u, posts[p].author_id)
    THEN /\ resp' = Resp("delete_post", u, p, 403, <<>>)
         /\ UNCHANGED db
    ELSE IF StaleLinks(p, TagsOf(p))
    THEN /\ resp' = Resp("delete_post", u, p, 500, <<>>)
         /\ UNCHANGED db
    ELSE /\ posts' = Drop(posts, {p})
         /\ comments' = Drop(comments, {c \in DOMAIN comments : comments[c].post_id = p})
         /\ likes' = [e \in {e \in BagToSet(likes) : e[1] # p} |-> likes[e]]
         /\ post_tags' = [e \in {e \in BagToSet(post_tags) : e[1] # p} |-> post_tags[e]]
         /\ resp' = Resp("delete_post", u, p, 200, <<>>)
         /\ UNCHANGED <<users, statuses, tags>>

\* create_tag without the lookup: the unique index on Tag.name answers instead.
create_tag_no_lookup(u, name) ==
    IF \E t \in DOMAIN tags : tags[t] = name
    THEN /\ resp' = Resp("create_tag", u, 0, 500, <<>>)
         /\ UNCHANGED db
    ELSE /\ Cardinality(DOMAIN tags) < MaxTags
         /\ tags' = Put(tags, NextId(DOMAIN tags), name)
         /\ resp' = Resp("create_tag", u, NextId(DOMAIN tags), 201, <<>>)
         /\ UNCHANGED <<users, statuses, posts, post_tags, comments, likes>>

create_tag(u, name) ==
    IF \E t \in DOMAIN tags : tags[t] = name
    THEN /\ resp' = Resp("create_tag", u, 0, 409, <<>>)
         /\ UNCHANGED db
    ELSE /\ Cardinality(DOMAIN tags) < MaxTags
         /\ tags' = Put(tags, NextId(DOMAIN tags), name)
         /\ resp' = Resp("create_tag", u, NextId(DOMAIN tags), 201, <<>>)
         /\ UNCHANGED <<users, statuses, posts, post_tags, comments, likes>>

\* create_comment that applies the visibility rule of get_post to the parent post.
create_comment_if_visible(u, p, content) ==
    IF p \notin DOMAIN posts
       \/ (posts[p].status_id # 2 /\ users[u].role # "admin" /\ posts[p].author_id # u)
    THEN /\ resp' = Resp("create_comment", u, p, 404, <<>>)
         /\ UNCHANGED db
    ELSE /\ Cardinality(DOMAIN comments) < MaxComments
         /\ comments' = Put(comments, NextId(DOMAIN comments),
                            [content |-> content, post_id |-> p, author_id |-> u])
         /\ resp' = Resp("create_comment", u, p, 201, <<>>)
         /\ UNCHANGED <<users, statuses, posts, tags, post_tags, likes>>

create_comment(u, p, content) ==
    IF p \notin DOMAIN posts
    THEN /\ resp' = Resp("create_comment", u, p, 404, <<>>)
         /\ UNCHANGED db
    ELSE /\ Cardinality(DOMAIN comments) < MaxComments
         /\ comments' = Put(comments, NextId(DOMAIN comments),
                            [content |-> content, post_id |-> p, author_id |-> u])
         /\ resp' = Resp("create_comment", u, p, 201, <<>>)
         /\ UNCHANGED <<users, statuses, posts, tags, post_tags, likes>>

\* The comment addressed by /posts/{post_id}/comments/{comment_id}, if any.
FindComment(p, c) == c \in DOMAIN comments /\ comments[c].post_id = p

update_comment(u, p, c, content) ==
    LET R(code) == [Resp("update_comment", u, p, code, <<>>) EXCEPT !.query = c]
    IN  IF p \notin DOMAIN posts \/ ~FindComment(p, c)
        THEN resp' = R(404) /\ UNCHANGED db
        ELSE IF ~check_resource_permission(u, comments[c].author_id)
        THEN resp' = R(403) /\ UNCHANGED db
        ELSE /\ comments' = [comments EXCEPT ![c].content = content]
             /\ resp' = R(200)
             /\ UNCHANGED <<users, statuses, posts, tags, post_tags, likes>>

delete_comment(u, p, c) ==
    LET R(code) == [Resp("delete_comment", u, p, code, <<>>) EXCEPT !.query = c]
    IN  IF p \notin DOMAIN posts \/ ~FindComment(p, c)
        THEN resp' = R(404) /\ UNCHANGED db
        ELSE IF ~check_resource_permission(u, comments[c].author_id)
        THEN resp' = R(403) /\ UNCHANGED db
        ELSE /\ comments' = Drop(comments, {c})
             /\ resp' = R(200)
             /\ UNCHANGED <<users, statuses, posts, tags, post_tags, likes>>

OneLike(p, u) == SetToBag({<<p, u>>})

\* like_post without the "already liked" lookup.
like_post_no_lookup(u, p) ==
    IF p \notin DOMAIN posts
    THEN /\ resp' = Resp("like_post", u, p, 404, <<>>)
         /\ UNCHANGED db
    ELSE /\ likes' = likes (+) OneLike(p, u)
         /\ resp' = Resp("like_post", u, p, 201, <<>>)
         /\ UNCHANGED <<users, statuses, posts, tags, post_tags, comments>>

like_post(u, p) ==
    IF p \notin DOMAIN posts
    THEN /\ resp' = Resp("like_post", u, p, 404, <<>>)
         /\ UNCHANGED db
    ELSE IF CopiesIn(<<p, u>>, likes) > 0
    THEN /\ resp' = Resp("like_post", u, p, 409, <<>>)
         /\ UNCHANGED db
    ELSE /\ likes' = likes (+) OneLike(p, u)
         /\ resp' = Resp("like_post", u, p, 201, <<>>)
         /\ UNCHANGED <<users, statuses, posts, tags, post_tags, comments>>

unlike_post(u, p) ==
    IF CopiesIn(<<p, u>>, likes) = 0
    THEN /\ resp' = Resp("unlike_post", u, p, 404, <<>>)
         /\ UNCHANGED db
    ELSE /\ likes' = likes (-) OneLike(p, u)
         /\ resp' = Resp("unlike_post", u, p, 200, <<>>)
         /\ UNCHANGED <<users, statuses, posts, tags, post_tags, comments>>

(* ---------------- queries ---------------- *)
RECURSIVE AscSeq(_)
AscSeq(S) == IF S = {} THEN <<>> ELSE <<Min(S)>> \o AscSeq(S \ {Min(S)})
RECURSIVE DescSeq(_)
DescSeq(S) == IF S = {} THEN <<>> ELSE <<Max(S)>> \o DescSeq(S \ {Max(S)})
RECURSIVE Repeat(_, _)
Repeat(x, n) == IF n = 0 THEN <<>> ELSE <<x>> \o Repeat(x, n - 1)
\* Post JOIN <table>: one row per matching row of the joined table, in rowid order.
RECURSIVE JoinRows(_, _)
JoinRows(ids, copies) ==
    IF ids = <<>> THEN <<>> ELSE Repeat(Head(ids), copies[Head(ids)]) \o JoinRows(Tail(ids), copies)
\* A Query of one mapped entity hands each object back once.
RECURSIVE Unique(_)
Unique(s) ==
    IF s = <<>> THEN <<>>
    ELSE <<Head(s)>> \o Unique(SelectSeq(Tail(s), LAMBDA x : x # Head(s)))

\* SQL LIKE on lower-cased operands: % matches any run, _ any one character.
Lower(c) == CASE c = "A" -> "a" [] c = "B" -> "b" [] OTHER -> c
RECURSIVE LikeMatch(_, _)
LikeMatch(pat, str) ==
    IF pat = <<>> THEN str = <<>>
    ELSE IF Head(pat) = "%"
    THEN LikeMatch(Tail(pat), str) \/ (str # <<>> /\ LikeMatch(pat, Tail(str)))
    ELSE /\ str # <<>>
         /\ (Head(pat) = "_" \/ Lower(Head(pat)) = Lower(Head(str)))
         /\ LikeMatch(Tail(pat), Tail(str))
ilike(column, search) == LikeMatch(<<"%">> \o search \o <<"%">>, column)

paginate(rows, page, limit) ==
    LET total == Len(rows)
        first == (page - 1) * limit + 1
        last == IF page * limit < total THEN page * limit ELSE total
    IN  [items |-> SubSeq(rows, first, last), total |-> total,
         pages |-> (total + limit - 1) \div limit, current_page |-> page]

Page(op, who, target, query, pg) ==
    [op |-> op, who |-> who, target |-> target, query |-> query, code |-> 200, items |-> Unique(pg.items),
     info |-> [NoInfo EXCEPT !.total = pg.total, !.pages = pg.pages, !.current_page = pg.current_page]]

filter_published_posts(ids, u) ==
    IF u = Anon THEN {p \in ids : posts[p].status_id = 2}
    ELSE IF users[u].role = "admin" THEN ids
    ELSE {p \in ids : posts[p].author_id = u \/ posts[p].status_id = 2}

\* list_posts with the search applied to the unfiltered query.
list_posts_search_all(u, search, page, limit) ==
    LET visible == IF u = Anon THEN {p \in DOMAIN posts : posts[p].status_id = 2}
                   ELSE IF users[u].role = "admin" THEN DOMAIN posts
                   ELSE {p \in DOMAIN posts : posts[p].author_id = u \/ posts[p].status_id = 2}
        found == IF search # <<>>
                 THEN {p \in DOMAIN posts : ilike(posts[p].title, search) \/ ilike(posts[p].content, search)}
                 ELSE visible
    IN  Page("list_posts", u, 0, search, paginate(DescSeq(found), page, limit))

\* search = <<>> stands for no search parameter (and for the empty string).
list_posts(u, search, page, limit) ==
    LET visible == IF u = Anon THEN {p \in DOMAIN posts : posts[p].status_id = 2}
                   ELSE IF users[u].role = "admin" THEN DOMAIN posts
                   ELSE {p \in DOMAIN posts : posts[p].author_id = u \/ posts[p].status_id = 2}
        found == IF search # <<>>
                 THEN {p \in visible : ilike(posts[p].title, search) \/ ilike(posts[p].content, search)}
                 ELSE visible
    IN  Page("list_posts", u, 0, search, paginate(DescSeq(found), page, limit))

\* get_post without the author / admin test for logged-in callers.
get_post_any_user(u, p) ==
    IF p \notin DOMAIN posts THEN Resp("get_post", u, p, 404, <<>>)
    ELSE IF posts[p].status_id # 2 /\ u = Anon THEN Resp("get_post", u, p, 404, <<>>)
    ELSE Resp("get_post", u, p, 200, <<p>>)

get_post(u, p) ==
    IF p \notin DOMAIN posts THEN Resp("get_post", u, p, 404, <<>>)
    ELSE IF posts[p].status_id # 2 /\ u = Anon THEN Resp("get_post", u, p, 404, <<>>)
    ELSE IF posts[p].status_id # 2 /\ users[u].role # "admin" /\ u # posts[p].author_id
    THEN Resp("get_post", u, p, 404, <<>>)
    ELSE Resp("get_post", u, p, 200, <<p>>)

\* get_posts_by_tag that lets every caller filter by status.
get_posts_by_tag_any_filter(u, t, status, page, limit) ==
    IF t \notin DOMAIN tags THEN [Resp("get_posts_by_tag", u, t, 404, <<>>) EXCEPT !.query = status]
    ELSE LET tagged == {p \in DOMAIN posts : CopiesIn(<<p, t>>, post_tags) > 0}
             chosen == IF status # ""
                       THEN {p \in tagged : /\ posts[p].status_id \in DOMAIN statuses
                                            /\ statuses[posts[p].status_id] = status}
                       ELSE filter_published_posts(tagged, u)
             rows == JoinRows(AscSeq(chosen), [p \in chosen |-> CopiesIn(<<p, t>>, post_tags)])
         IN  Page("get_posts_by_tag", u, t, status, paginate(rows, page, limit))

\* status = "" stands for no status parameter (and for the empty string).
get_posts_by_tag(u, t, status, page, limit) ==
    IF t \notin DOMAIN tags THEN [Resp("get_posts_by_tag", u, t, 404, <<>>) EXCEPT !.query = status]
    ELSE IF status # "" /\ (u = Anon \/ users[u].role \notin {"admin", "author"})
    THEN [Resp("get_posts_by_tag", u, t, 403, <<>>) EXCEPT !.query = status]
    ELSE LET tagged == {p \in DOMAIN posts : CopiesIn(<<p, t>>, post_tags) > 0}
             chosen == IF status # ""
                       THEN {p \in tagged : /\ posts[p].status_id \in DOMAIN statuses
                                            /\ statuses[posts[p].status_id] = status}
                       ELSE filter_published_posts(tagged, u)
             rows == JoinRows(AscSeq(chosen), [p \in chosen |-> CopiesIn(<<p, t>>, post_tags)])
         IN  Page("get_posts_by_tag", u, t, status, paginate(rows, page, limit))

\* count of the Like rows of every post, whatever the post asked for.
likes_count_all_rows(p) == BagCardinality(likes)

\* SELECT count(likes.id) WHERE likes.post_id = p: Post.likes_count, and the
\* count query of get_post_likes and get_post_with_like_status.
likes_count(p) == BagCardinality([e \in {e \in BagToSet(likes) : e[1] = p} |-> likes[e]])

get_post_likes(p) ==
    IF p \notin DOMAIN posts THEN Resp("get_post_likes", Anon, p, 404, <<>>)
    ELSE [Resp("get_post_likes", Anon, p, 200, <<>>) EXCEPT !.info.likes_count = likes_count(p)]

get_post_with_like_status(u, p) ==
    IF p \notin DOMAIN posts THEN Resp("get_post_with_like_status", u, p, 404, <<>>)
    ELSE [Resp("get_post_with_like_status", u, p, 200, <<p>>) EXCEPT
             !.info = [NoInfo EXCEPT !.is_liked = (u # Anon /\ CopiesIn(<<p, u>>, likes) > 0),
                                     !.likes_count = likes_count(p)]]

list_user_liked_posts(u, page, limit) ==
    LET liked == {p \in DOMAIN posts : CopiesIn(<<p, u>>, likes) > 0}
        rows == JoinRows(AscSeq(liked), [p \in liked |-> CopiesIn(<<p, u>>, likes)])
    IN  Page("list_user_liked_posts", u, 0, <<>>, paginate(rows, page, limit))

(* ---------------- inputs ---------------- *)
Principals == {Anon} \cup DOMAIN users
PostIds == 1..MaxPosts
TagIds == 1..MaxTags
CommentIds == 1..MaxComments
Titles == {<<"A", "b">>, <<"b">>}
Contents == {<<"a">>}
Searches == {<<>>, <<"a">>, <<"_", "B">>}
TagNames == {"x", "y"}
TagLists == {<<>>, <<"x">>, <<"x", "x">>, <<"y">>}
CommentTexts == {<<"c">>, <<"d">>}
StatusFilters == {"", "draft"}
PageArgs == {<<1, 10>>}

\* Request bodies of the visibility specification: every title and status, no tags.
PostBodies == [title : Titles, content : Contents, status_id : 1..3, tags : {<<>>}]
PostPatches == [title : {U, N, V(<<"b">>)}, content : {U}, status_id : {U, V(1), V(2)}, tags : {U}]

(* ---------------- actions ---------------- *)
Read(r) == resp' = r /\ UNCHANGED <<db, reqs>>

CreatePost == \E u \in DOMAIN users, body \in PostBodies : create_post(u, body) /\ UNCHANGED reqs
UpdatePost == \E u \in DOMAIN users, p \in PostIds, body \in PostPatches : update_post(u, p, body) /\ UNCHANGED reqs
DeletePost == \E u \in DOMAIN users, p \in PostIds : delete_post(u, p) /\ UNCHANGED reqs
GetPost == \E u \in Principals, p \in PostIds : Read(get_post(u, p))
ListPosts == \E u \in Principals, s \in Searches, a \in PageArgs : Read(list_posts(u, s, a[1], a[2]))

Next == CreatePost \/ UpdatePost \/ DeletePost \/ GetPost \/ ListPosts

Spec == Init /\ [][Next]_vars

\* Request bodies of the tagging specification: one title, every tag list.
TagPostBodies == [title : {<<"b">>}, content : Contents, status_id : 1..3, tags : TagLists]
TagPatches == [title : {U}, content : {U}, status_id : {U},
               tags : {U, V(<<>>), V(<<"x", "y">>)}]
\* The accounts that write in the tagging specification (the admin only reads).
Taggers == {u \in DOMAIN users : users[u].role # "admin"}

CreateTaggedPost == \E u \in Taggers, body \in TagPostBodies : create_post(u, body) /\ UNCHANGED reqs
RetagPost == \E u \in Taggers, p \in PostIds, body \in TagPatches : update_post(u, p, body) /\ UNCHANGED reqs
CreateTag == \E u \in Taggers, name \in TagNames : create_tag(u, name) /\ UNCHANGED reqs
GetPostsByTag ==
    \E u \in Principals, t \in TagIds, f \in StatusFilters, a \in PageArgs :
        Read(get_posts_by_tag(u, t, f, a[1], a[2]))

NextTags == CreateTaggedPost \/ RetagPost \/ DeletePost \/ CreateTag \/ GetPostsByTag

SpecTags == Init /\ [][NextTags]_vars
\* Request bodies of the comment and like specifications: one title, no tags.
PlainPostBodies == [title : {<<"b">>}, content : Contents, status_id : 1..2, tags : {<<>>}]
EditPatches == [title : {U, N}, content : {U}, status_id : {U, V(2)}, tags : {U}]

\* GET /posts/{post_id}/comments takes no principal: 404 unless the post is
\* stored with status_id 2, else post.comments.
list_post_comments(p) ==
    IF p \notin DOMAIN posts \/ posts[p].status_id # 2
    THEN Resp("list_post_comments", Anon, p, 404, <<>>)
    ELSE Resp("list_post_comments", Anon, p, 200,
              AscSeq({c \in DOMAIN comments : comments[c].post_id = p}))

ListPostComments == \E p \in PostIds : Read(list_post_comments(p))

CreatePlainPost == \E u \in DOMAIN users, body \in PlainPostBodies : create_post(u, body) /\ UNCHANGED reqs
EditPost == \E u \in DOMAIN users, p \in PostIds, body \in EditPatches : update_post(u, p, body) /\ UNCHANGED reqs
CreateComment == \E u \in DOMAIN users, p \in PostIds, t \in CommentTexts : create_comment(u, p, t) /\ UNCHANGED reqs
UpdateComment ==
    \E u \in DOMAIN users, p \in PostIds, c \in CommentIds, t \in CommentTexts :
        update_comment(u, p, c, t) /\ UNCHANGED reqs
DeleteComment == \E u \in DOMAIN users, p \in PostIds, c \in CommentIds : delete_comment(u, p, c) /\ UNCHANGED reqs

NextComments ==
    \/ CreatePlainPost \/ EditPost \/ DeletePost
    \/ CreateComment \/ UpdateComment \/ DeleteComment \/ ListPostComments

SpecComments == Init /\ [][NextComments]_vars

LikePost == \E u \in DOMAIN users, p \in PostIds : like_post(u, p) /\ UNCHANGED reqs
UnlikePost == \E u \in DOMAIN users, p \in PostIds : unlike_post(u, p) /\ UNCHANGED reqs
GetPostWithLikeStatus == \E u \in Principals, p \in PostIds : Read(get_post_with_like_status(u, p))
ListUserLikedPosts == \E u \in DOMAIN users, a \in PageArgs : Read(list_user_liked_posts(u, a[1], a[2]))
GetPostLikes == \E p \in PostIds : Read(get_post_likes(p))

NextLikes ==
    \/ CreatePlainPost \/ DeletePost \/ LikePost \/ UnlikePost
    \/ GetPostWithLikeStatus \/ ListUserLikedPosts \/ GetPostLikes

SpecLikes == Init /\ [][NextLikes]_vars

\* Request bodies of the cascade specification: published posts with distinct tags.
CascadeBodies == [title : {<<"b">>}, content : Contents, status_id : {2},
                  tags : {<<>>, <<"x">>, <<"x", "y">>}]

CreateLinkedPost == \E u \in Taggers, body \in CascadeBodies : create_post(u, body) /\ UNCHANGED reqs
CommentOnPost == \E u \in Taggers, p \in PostIds : create_comment(u, p, <<"c">>) /\ UNCHANGED reqs
LikeByWriter == \E u \in Taggers, p \in PostIds : like_post(u, p) /\ UNCHANGED reqs

NextCascade == CreateLinkedPost \/ CommentOnPost \/ LikeByWriter \/ DeletePost

SpecCascade == Init /\ [][NextCascade]_vars

(* ---------------- requests in flight ---------------- *)
\* A handler that looks a row up and inserts it later runs in two steps when
\* requests overlap: the lookups (begin_*), then the INSERT and commit
\* (commit_*), each request in a session of its own.  reqs lists the requests
\* that passed their lookups, with code 0 until they are answered.
Req(op, who, target, arg) == [op |-> op, who |-> who, target |-> target, arg |-> arg, code |-> 0]
Pending(r, op) == r \in DOMAIN reqs /\ reqs[r].op = op /\ reqs[r].code = 0
Answer(r, code) ==
    /\ reqs' = [reqs EXCEPT ![r].code = code]
    /\ resp' = Resp(reqs[r].op, reqs[r].who, reqs[r].target, code, <<>>)

begin_like_post(u, p) ==
    IF p \notin DOMAIN posts
    THEN resp' = Resp("like_post", u, p, 404, <<>>) /\ UNCHANGED <<db, reqs>>
    ELSE IF CopiesIn(<<p, u>>, likes) > 0
    THEN resp' = Resp("like_post", u, p, 409, <<>>) /\ UNCHANGED <<db, reqs>>
    ELSE /\ Len(reqs) < MaxReqs
         /\ reqs' = Append(reqs, Req("like_post", u, p, <<>>))
         /\ UNCHANGED <<db, resp>>

\* The likes table has no unique index and SQLite checks no foreign key here:
\* the INSERT always goes through.
commit_like_post(r) ==
    /\ Pending(r, "like_post")
    /\ likes' = likes (+) OneLike(reqs[r].target, reqs[r].who)
    /\ Answer(r, 201)
    /\ UNCHANGED <<users, statuses, posts, tags, post_tags, comments>>

begin_create_tag(u, name) ==
    IF \E t \in DOMAIN tags : tags[t] = name
    THEN resp' = Resp("create_tag", u, 0, 409, <<>>) /\ UNCHANGED <<db, reqs>>
    ELSE /\ Len(reqs) < MaxReqs
         /\ reqs' = Append(reqs, Req("create_tag", u, 0, name))
         /\ UNCHANGED <<db, resp>>

\* Tag.name is unique: a second INSERT of the name raises IntegrityError, which
\* the handler's "except Exception" turns into rollback and 500.
commit_create_tag(r) ==
    /\ Pending(r, "create_tag")
    /\ IF \E t \in DOMAIN tags : tags[t] = reqs[r].arg
       THEN Answer(r, 500) /\ UNCHANGED db
       ELSE /\ Cardinality(DOMAIN tags) < MaxTags
            /\ tags' = Put(tags, NextId(DOMAIN tags), reqs[r].arg)
            /\ Answer(r, 201)
            /\ UNCHANGED <<users, statuses, posts, post_tags, comments, likes>>

IsUpper(c) == c \in {"A", "B", "P"}
IsLower(c) == c \in {"a", "b", "d", "o", "p", "r", "s", "w"}
IsDigit(c) == c \in {"0", "1", "2", "3"}
MinPasswordLen == 8
validate_password(pw) ==
    /\ Len(pw) >= MinPasswordLen
    /\ \E i \in DOMAIN pw : IsUpper(pw[i])
    /\ \E i \in DOMAIN pw : IsLower(pw[i])
    /\ \E i \in DOMAIN pw : IsDigit(pw[i])

begin_register_user(body) ==
    IF \E i \in DOMAIN users : users[i].username = body.username
    THEN resp' = Resp("register_user", Anon, 0, 400, <<>>) /\ UNCHANGED <<db, reqs>>
    ELSE IF \E i \in DOMAIN users : users[i].email = body.email
    THEN resp' = Resp("register_user", Anon, 0, 400, <<>>) /\ UNCHANGED <<db, reqs>>
    ELSE IF ~validate_password(body.password)
    THEN resp' = Resp("register_user", Anon, 0, 422, <<>>) /\ UNCHANGED <<db, reqs>>
    ELSE /\ Len(reqs) < MaxReqs
         /\ reqs' = Append(reqs, Req("register_user", Anon, 0, body))
         /\ UNCHANGED <<db, resp>>

\* User.username and User.email are unique: IntegrityError -> rollback, 500.
commit_register_user(r) ==
    /\ Pending(r, "register_user")
    /\ LET body == reqs[r].arg
       IN  IF \E i \in DOMAIN users :
                 users[i].username = body.username \/ users[i].email = body.email
           THEN Answer(r, 500) /\ UNCHANGED db
           ELSE /\ Len(users) < MaxUsers
                /\ users' = Append(users, [username |-> body.username, email |-> body.email,
                                           role |-> body.role,
                                           password |-> get_password_hash(body.password)])
                /\ Answer(r, 201)
                /\ UNCHANGED <<statuses, posts, tags, post_tags, comments, likes>>

NewAccounts == [username : {"kim", "lee"}, email : {"kim@example.com", "lee@example.com"},
                password : {GoodPassword}, role : {"reader"}]

BeginLikePost == \E u \in DOMAIN users, p \in PostIds : begin_like_post(u, p)
CommitLikePost == \E r \in 1..MaxReqs : commit_like_post(r)
BeginCreateTag == \E u \in Taggers, name \in TagNames : begin_create_tag(u, name)
CommitCreateTag == \E r \in 1..MaxReqs : commit_create_tag(r)
BeginRegisterUser == \E body \in NewAccounts : begin_register_user(body)
CommitRegisterUser == \E r \in 1..MaxReqs : commit_register_user(r)

\* Overlapping requests start from a database that holds one published post.
InitRace ==
    /\ users = <<AdminUser, Bob, Eve>>
    /\ statuses = SeedStatuses
    /\ posts = <<[title |-> <<"b">>, content |-> <<"a">>, author_id |-> 2, status_id |-> 2]>>
    /\ tags = <<>>
    /\ post_tags = EmptyBag
    /\ comments = <<>>
    /\ likes = EmptyBag
    /\ resp = NoResp
    /\ reqs = <<>>

NextRace ==
    \/ BeginLikePost \/ CommitLikePost
    \/ BeginCreateTag \/ CommitCreateTag
    \/ BeginRegisterUser \/ CommitRegisterUser

SpecRace == InitRace /\ [][NextRace]_vars

(* ---------------- accounts ---------------- *)
\* schemas.UserRole; NoRole stands for a body without role, or with role null.
UserRoles == {"admin", "author", "reader"}
NoRole == ""
\* UserCreate / UserUpdate validation of the request body (422 before the handler runs).
UserCreateValid(body) ==
    /\ Len(body.password) >= MinPasswordLen
    /\ body.role \in UserRoles \cup {NoRole}
UserUpdateValid(body) ==
    /\ body.password.kind = "val" => Len(body.password.val) >= MinPasswordLen
    /\ body.role.kind = "val" => body.role.val \in UserRoles

\* User.validate_role
validate_role(role) == role \in {"admin", "author", "reader"}

\* role=user.role or "reader", with the role written as it came.
StoredRole_as_given(role) == role

\* role=user.role or "reader"
StoredRole(role) == IF role = NoRole THEN "reader" ELSE role

UsernameTaken(name) == \E i \in DOMAIN users : users[i].username = name
EmailTaken(email) == \E i \in DOMAIN users : users[i].email = email

\* register_user that skips both "already registered" lookups.
register_user_no_lookup(body) ==
    LET R(code) == [Resp("register_user", Anon, 0, code, <<>>) EXCEPT !.query = body]
    IN  IF ~UserCreateValid(body) THEN resp' = R(422) /\ UNCHANGED db
        ELSE IF ~validate_password(body.password) THEN resp' = R(422) /\ UNCHANGED db
        ELSE /\ Len(users) < MaxUsers
             /\ users' = Append(users, [username |-> body.username, email |-> body.email,
                                        role |-> StoredRole(body.role),
                                        password |-> get_password_hash(body.password)])
             /\ resp' = [R(201) EXCEPT !.target = Len(users) + 1]
             /\ UNCHANGED <<statuses, posts, tags, post_tags, comments, likes>>

register_user(body) ==
    LET R(code) == [Resp("register_user", Anon, 0, code, <<>>) EXCEPT !.query = body]
    IN  IF ~UserCreateValid(body) THEN resp' = R(422) /\ UNCHANGED db
        ELSE IF UsernameTaken(body.username) THEN resp' = R(400) /\ UNCHANGED db
        ELSE IF EmailTaken(body.email) THEN resp' = R(400) /\ UNCHANGED db
        ELSE IF ~validate_password(body.password) THEN resp' = R(422) /\ UNCHANGED db
        ELSE IF ~validate_role(StoredRole(body.role)) THEN resp' = R(500) /\ UNCHANGED db
        ELSE /\ Len(users) < MaxUsers
             /\ users' = Append(users, [username |-> body.username, email |-> body.email,
                                        role |-> StoredRole(body.role),
                                        password |-> get_password_hash(body.password)])
             /\ resp' = [R(201) EXCEPT !.target = Len(users) + 1]
             /\ UNCHANGED <<statuses, posts, tags, post_tags, comments, likes>>

\* The three steps of update_user_profile on the loaded current_user: each
\* yields the changed object, with ok false when the step raises the 400.
SetUsername(cur, f) ==
    IF f.kind = "val" /\ f.val # cur.username
    THEN [ok |-> ~UsernameTaken(f.val), user |-> [cur EXCEPT !.username = f.val]]
    ELSE [ok |-> TRUE, user |-> cur]
SetEmail(cur, old, f) ==
    IF f.kind = "val" /\ f.val # old.email
    THEN [ok |-> ~EmailTaken(f.val), user |-> [cur EXCEPT !.email = f.val]]
    ELSE [ok |-> TRUE, user |-> cur]
SetPassword(cur, f) ==
    IF f.kind = "val"
    THEN [ok |-> validate_password(f.val), user |-> [cur EXCEPT !.password = get_password_hash(f.val)]]
    ELSE [ok |-> TRUE, user |-> cur]

\* update_user_profile that commits each field as it is assigned.
update_user_profile_commit_each(u, body) ==
    LET R(code) == [Resp("update_user_profile", u, u, code, <<>>) EXCEPT !.query = body]
        a == SetUsername(users[u], body.username)
        b == SetEmail(a.user, users[u], body.email)
        c == SetPassword(b.user, body.password)
    IN  IF ~UserUpdateValid(body) THEN resp' = R(422) /\ UNCHANGED db
        ELSE /\ users' = [users EXCEPT ![u] = IF ~a.ok THEN @ ELSE IF ~b.ok THEN a.user
                                               ELSE IF ~c.ok THEN b.user ELSE c.user]
             /\ resp' = R(IF a.ok /\ b.ok /\ c.ok THEN 200 ELSE 400)
             /\ UNCHANGED <<statuses, posts, tags, post_tags, comments, likes>>

\* update_user_profile that also assigns the role field of the body.
update_user_profile_with_role(u, body) ==
    LET R(code) == [Resp("update_user_profile", u, u, code, <<>>) EXCEPT !.query = body]
        a == SetUsername(users[u], body.username)
        b == SetEmail(a.user, users[u], body.email)
        c == SetPassword(b.user, body.password)
    IN  IF ~UserUpdateValid(body) THEN resp' = R(422) /\ UNCHANGED db
        ELSE IF ~(a.ok /\ b.ok /\ c.ok) THEN resp' = R(400) /\ UNCHANGED db
        ELSE /\ users' = [users EXCEPT ![u] = [c.user EXCEPT !.role = Patch(body.role, @)]]
             /\ resp' = R(200)
             /\ UNCHANGED <<statuses, posts, tags, post_tags, comments, likes>>

update_user_profile(u, body) ==
    LET R(code) == [Resp("update_user_profile", u, u, code, <<>>) EXCEPT !.query = body]
        a == SetUsername(users[u], body.username)
        b == SetEmail(a.user, users[u], body.email)
        c == SetPassword(b.user, body.password)
    IN  IF ~UserUpdateValid(body) THEN resp' = R(422) /\ UNCHANGED db
        ELSE IF ~(a.ok /\ b.ok /\ c.ok) THEN resp' = R(400) /\ UNCHANGED db
        ELSE /\ users' = [users EXCEPT ![u] = c.user]
             /\ resp' = R(200)
             /\ UNCHANGED <<statuses, posts, tags, post_tags, comments, likes>>

WeakPassword == <<"p", "a", "s", "s", "w", "o", "r", "d">>
Usernames == {"bob", "kim"}
Emails == {"bob@example.com", "kim@example.com"}
RegisterBodies == [username : Usernames, email : Emails,
                   password : {GoodPassword, WeakPassword},
                   role : {NoRole, "admin", "author", "root"}]
ProfileBodies == [username : {U, V("eve"), V("kim")}, email : {U, V("eve@example.com"), V("kim@example.com")},
                  password : {U, V(WeakPassword)}, role : {U, V("admin"), V("root")}]

RegisterUser == \E body \in RegisterBodies : register_user(body) /\ UNCHANGED reqs
UpdateUserProfile == \E u \in DOMAIN users, body \in ProfileBodies : update_user_profile(u, body) /\ UNCHANGED reqs

NextUsers == RegisterUser \/ UpdateUserProfile

SpecUsers == Init /\ [][NextUsers]_vars

(* ---------------- transactions ---------------- *)
\* A mutating handler writes inside one transaction of its session: every
\* flush goes to the transaction, db.commit() makes it durable, and an
\* exception raised by a flush or by the commit reaches "except Exception",
\* which calls db.rollback() and answers 500.  While a handler is between its
\* first write and its commit, reqs holds its request with the rows as they
\* were when it started (before); the table variables show the transaction.
Txn(op, who, target, todo) ==
    [op |-> op, who |-> who, target |-> target, todo |-> todo, ids |-> <<>>,
     before |-> db, code |-> 0]
Idle == reqs = <<>>

\* db.rollback() that leaves the flushed rows in place.
rollback_keeps_flushed(before) == UNCHANGED db

\* db.rollback(): every table is as it was before the transaction.
rollback(before) ==
    /\ users' = before[1]
    /\ statuses' = before[2]
    /\ posts' = before[3]
    /\ tags' = before[4]
    /\ post_tags' = before[5]
    /\ comments' = before[6]
    /\ likes' = before[7]

\* create_post up to the flush of the Post row.
stage_create_post(u, body) ==
    /\ Idle
    /\ IF ~status_exists(body.status_id)
       THEN /\ resp' = Resp("create_post", u, 0, 404, <<>>)
            /\ UNCHANGED <<db, reqs>>
       ELSE LET new == NextId(DOMAIN posts)
            IN  /\ Cardinality(DOMAIN posts) < MaxPosts
                /\ posts' = Put(posts, new, [title |-> body.title, content |-> body.content,
                                             author_id |-> u, status_id |-> body.status_id])
                /\ reqs' = <<Txn("create_post", u, new, body.tags)>>
                /\ UNCHANGED <<users, statuses, tags, post_tags, comments, likes, resp>>

\* One round of the tag loop of create_post: lookup, insert and flush of a
\* missing Tag, append to Post.tags.
flush_tag ==
    /\ ~Idle /\ reqs[1].op = "create_post" /\ reqs[1].todo # <<>>
    /\ LET r == ResolveTags(<<Head(reqs[1].todo)>>, tags, <<>>)
       IN  /\ Cardinality(DOMAIN r.tags) <= MaxTags
           /\ tags' = r.tags
           /\ reqs' = <<[reqs[1] EXCEPT !.todo = Tail(@), !.ids = @ \o r.ids]>>
    /\ UNCHANGED <<users, statuses, posts, post_tags, comments, likes, resp>>

\* A handler whose writes are all made by one flush at its commit: the
\* response in resp is the one it returns when the commit goes through.
stage(handler) ==
    /\ Idle
    /\ handler
    /\ reqs' = IF resp'.code \in {200, 201}
               THEN <<Txn(resp'.op, resp'.who, resp'.target, <<>>)>>
               ELSE <<>>

\* db.commit() goes through.
commit ==
    /\ ~Idle /\ reqs[1].todo = <<>>
    /\ reqs' = <<>>
    /\ IF reqs[1].op = "create_post"
       THEN /\ post_tags' = post_tags (+) LinkRows(reqs[1].target, reqs[1].ids)
            /\ resp' = Resp("create_post", reqs[1].who, reqs[1].target, 201, <<reqs[1].target>>)
            /\ UNCHANGED <<users, statuses, posts, tags, comments, likes>>
       ELSE UNCHANGED <<db, resp>>

\* A flush or the commit raises: except Exception -> db.rollback() -> 500.
\* The response lists the tags that had been flushed (query).
fail ==
    /\ ~Idle
    /\ rollback(reqs[1].before)
    /\ resp' = [Resp(reqs[1].op, reqs[1].who, reqs[1].target, 500, <<>>) EXCEPT !.query = reqs[1].ids]
    /\ reqs' = <<>>

AtomicPostBodies == [title : {<<"b">>}, content : Contents, status_id : {2, 3},
                     tags : {<<>>, <<"x">>, <<"x", "y">>}]
\* One update that changes a field and replaces the tags, one profile update
\* that changes username and email.
AtomicPatch == [title |-> V(<<"A", "b">>), content |-> U, status_id |-> U, tags |-> V(<<"y">>)]
AtomicProfile == [username |-> V("kim"), email |-> V("kim@example.com"), password |-> U, role |-> U]
\* The user whose requests are followed through their transactions.
Writer == 2

StageCreatePost == \E body \in AtomicPostBodies : stage_create_post(Writer, body)
FlushTag == flush_tag
StageUpdatePost == \E p \in PostIds : stage(update_post(Writer, p, AtomicPatch))
StageDeletePost == \E p \in PostIds : stage(delete_post(Writer, p))
StageCreateComment == \E p \in PostIds : stage(create_comment(Writer, p, <<"c">>))
StageLikePost == \E p \in PostIds : stage(like_post(Writer, p))
StageCreateTag == stage(create_tag(Writer, "y"))
StageUpdateProfile == stage(update_user_profile(Writer, AtomicProfile))
Commit == commit
Fail == fail

NextAtomic ==
    \/ StageCreatePost \/ FlushTag \/ StageUpdatePost \/ StageDeletePost
    \/ StageCreateComment \/ StageLikePost \/ StageCreateTag \/ StageUpdateProfile
    \/ Commit \/ Fail

SpecAtomic == Init /\ [][NextAtomic]_vars

(* ---------------- authentication ---------------- *)
\* The Authorization header of a request: absent, a string jwt.decode rejects
\* (malformed, forged or expired: JWTError), or a signed token with its
\* subject, the username it was issued to.
NoToken == [kind |-> "none"]
BadToken == [kind |-> "bad"]
Tok(name) == [kind |-> "jwt", sub |-> name]

\* db.query(User).filter(User.username == username).first(); Anon when no row.
UserNamed(name) ==
    IF \E i \in DOMAIN users : users[i].username = name
    THEN Min({i \in DOMAIN users : users[i].username = name})
    ELSE Anon

\* The user the optional dependency hands to the handler; Anon stands for None.
get_current_user_optional(tok) == IF tok.kind = "jwt" THEN UserNamed(tok.sub) ELSE Anon

\* get_current_user that takes the seeded admin when the token resolves to nobody.
get_current_user_or_admin(tok) ==
    IF tok.kind = "jwt" /\ UserNamed(tok.sub) # Anon THEN UserNamed(tok.sub) ELSE 1

\* The user the required dependency hands to the handler; Anon stands for
\* credentials_exception (and for the 401 of OAuth2PasswordBearer without a header).
get_current_user(tok) == IF tok.kind = "jwt" THEN UserNamed(tok.sub) ELSE Anon

\* credentials_exception raised by the dependency: 401 before the handler body.
credentials_exception(op, target) ==
    resp' = Resp(op, Anon, target, 401, <<>>) /\ UNCHANGED db

\* The request as it came in, kept with its token.
Sent(tok, op, target) == reqs' = <<Req(op, Anon, target, tok)>>

\* A handler that only reads, as the action of its route.
Answers(r) == resp' = r /\ UNCHANGED db

\* create_status without the role test.
create_status_any_role(u, name) ==
    IF \E i \in DOMAIN statuses : statuses[i] = name
    THEN resp' = Resp("create_status", u, 0, 500, <<>>) /\ UNCHANGED db
    ELSE /\ Len(statuses) < MaxStatuses
         /\ statuses' = Append(statuses, name)
         /\ resp' = Resp("create_status", u, Len(statuses) + 1, 201, <<>>)
         /\ UNCHANGED <<users, posts, tags, post_tags, comments, likes>>

create_status(u, name) ==
    IF users[u].role # "admin"
    THEN resp' = Resp("create_status", u, 0, 403, <<>>) /\ UNCHANGED db
    ELSE IF \E i \in DOMAIN statuses : statuses[i] = name
    THEN \* Status.name is unique: IntegrityError, not caught: 500, session closed
         resp' = Resp("create_status", u, 0, 500, <<>>) /\ UNCHANGED db
    ELSE /\ Len(statuses) < MaxStatuses
         /\ statuses' = Append(statuses, name)
         /\ resp' = Resp("create_status", u, Len(statuses) + 1, 201, <<>>)
         /\ UNCHANGED <<users, posts, tags, post_tags, comments, likes>>

read_users_me(u) == Resp("read_users_me", u, u, 200, <<>>)

list_user_posts(u, page, limit) ==
    Page("list_user_posts", u, 0, <<>>,
         paginate(DescSeq({p \in DOMAIN posts : posts[p].author_id = u}), page, limit))

list_user_comments(u, page, limit) ==
    Page("list_user_comments", u, 0, <<>>,
         paginate(AscSeq({c \in DOMAIN comments : comments[c].author_id = u}), page, limit))

\* Tokens sent in the authentication specification: none, a rejected one, and
\* the token issued to "bob", which resolves to nobody once bob is renamed.
Tokens == {NoToken, BadToken, Tok("bob")}
AdminTokens == Tokens \cup {Tok("admin"), Tok("eve")}
AuthPostBody == [title |-> <<"b">>, content |-> <<"a">>, status_id |-> 2, tags |-> <<>>]
AuthPatch == [title |-> U, content |-> U, status_id |-> V(1), tags |-> U]
Rename == [username |-> V("kim"), email |-> U, password |-> U, role |-> U]

TCreatePost == \E t \in Tokens :
    /\ Sent(t, "create_post", 0)
    /\ IF get_current_user(t) = Anon
       THEN credentials_exception("create_post", 0)
       ELSE create_post(get_current_user(t), AuthPostBody)
TUpdatePost == \E t \in Tokens, p \in PostIds :
    /\ Sent(t, "update_post", p)
    /\ IF get_current_user(t) = Anon
       THEN credentials_exception("update_post", p)
       ELSE update_post(get_current_user(t), p, AuthPatch)
TDeletePost == \E t \in Tokens, p \in PostIds :
    /\ Sent(t, "delete_post", p)
    /\ IF get_current_user(t) = Anon
       THEN credentials_exception("delete_post", p)
       ELSE delete_post(get_current_user(t), p)
TCreateComment == \E t \in Tokens, p \in PostIds :
    /\ Sent(t, "create_comment", p)
    /\ IF get_current_user(t) = Anon
       THEN credentials_exception("create_comment", p)
       ELSE create_comment(get_current_user(t), p, <<"c">>)
TUpdateComment == \E t \in Tokens, p \in PostIds, c \in CommentIds :
    /\ Sent(t, "update_comment", p)
    /\ IF get_current_user(t) = Anon
       THEN credentials_exception("update_comment", p)
       ELSE update_comment(get_current_user(t), p, c, <<"d">>)
TDeleteComment == \E t \in Tokens, p \in PostIds, c \in CommentIds :
    /\ Sent(t, "delete_comment", p)
    /\ IF get_current_user(t) = Anon
       THEN credentials_exception("delete_comment", p)
       ELSE delete_comment(get_current_user(t), p, c)
TLikePost == \E t \in Tokens, p \in PostIds :
    /\ Sent(t, "like_post", p)
    /\ IF get_current_user(t) = Anon
       THEN credentials_exception("like_post", p)
       ELSE like_post(get_current_user(t), p)
TUnlikePost == \E t \in Tokens, p \in PostIds :
    /\ Sent(t, "unlike_post", p)
    /\ IF get_current_user(t) = Anon
       THEN credentials_exception("unlike_post", p)
       ELSE unlike_post(get_current_user(t), p)
TCreateTag == \E t \in Tokens :
    /\ Sent(t, "create_tag", 0)
    /\ IF get_current_user(t) = Anon
       THEN credentials_exception("create_tag", 0)
       ELSE create_tag(get_current_user(t), "x")
TCreateStatus == \E t \in AdminTokens :
    /\ Sent(t, "create_status", 0)
    /\ IF get_current_user(t) = Anon
       THEN credentials_exception("create_status", 0)
       ELSE create_status(get_current_user(t), "archived")
TReadUsersMe == \E t \in Tokens :
    /\ Sent(t, "read_users_me", 0)
    /\ IF get_current_user(t) = Anon
       THEN credentials_exception("read_users_me", 0)
       ELSE Answers(read_users_me(get_current_user(t)))
TUpdateUserProfile == \E t \in Tokens :
    /\ Sent(t, "update_user_profile", 0)
    /\ IF get_current_user(t) = Anon
       THEN credentials_exception("update_user_profile", 0)
       ELSE update_user_profile(get_current_user(t), Rename)
TListUserPosts == \E t \in Tokens, a \in PageArgs :
    /\ Sent(t, "list_user_posts", 0)
    /\ IF get_current_user(t) = Anon
       THEN credentials_exception("list_user_posts", 0)
       ELSE Answers(list_user_posts(get_current_user(t), a[1], a[2]))
TListUserComments == \E t \in Tokens, a \in PageArgs :
    /\ Sent(t, "list_user_comments", 0)
    /\ IF get_current_user(t) = Anon
       THEN credentials_exception("list_user_comments", 0)
       ELSE Answers(list_user_comments(get_current_user(t), a[1], a[2]))
TListUserLikedPosts == \E t \in Tokens, a \in PageArgs :
    /\ Sent(t, "list_user_liked_posts", 0)
    /\ IF get_current_user(t) = Anon
       THEN credentials_exception("list_user_liked_posts", 0)
       ELSE Answers(list_user_liked_posts(get_current_user(t), a[1], a[2]))
TListPosts == \E t \in Tokens, a \in PageArgs :
    /\ Sent(t, "list_posts", 0)
    /\ Answers(list_posts(get_current_user_optional(t), <<>>, a[1], a[2]))
TGetPost == \E t \in Tokens, p \in PostIds :
    /\ Sent(t, "get_post", p)
    /\ Answers(get_post(get_current_user_optional(t), p))
TGetPostsByTag == \E t \in Tokens, g \in TagIds, a \in PageArgs :
    /\ Sent(t, "get_posts_by_tag", g)
    /\ Answers(get_posts_by_tag(get_current_user_optional(t), g, "", a[1], a[2]))

NextAuth ==
    \/ TCreatePost \/ TUpdatePost \/ TDeletePost
    \/ TCreateComment \/ TUpdateComment \/ TDeleteComment
    \/ TLikePost \/ TUnlikePost \/ TCreateTag \/ TCreateStatus
    \/ TReadUsersMe \/ TUpdateUserProfile
    \/ TListUserPosts \/ TListUserComments \/ TListUserLikedPosts
    \/ TListPosts \/ TGetPost \/ TGetPostsByTag

SpecAuth == Init /\ [][NextAuth]_vars

(* ---------------- partial update of a post ---------------- *)
\* Bodies of PUT /posts/{post_id} with every combination of supplied and
\* omitted title, content and status_id, a null status_id and the id of a
\* status that is not stored; the body sent is kept in reqs.
FieldPatches == [title : {U, V(<<"A", "b">>)}, content : {U, V(<<"c">>)},
                 status_id : {U, N, V(1), V(3)}, tags : {U}]
Editors == {1, 2}

WritePost == \E body \in PlainPostBodies :
    create_post(2, body) /\ reqs' = <<Req("create_post", 2, 0, body)>>
PatchPost == \E u \in Editors, p \in PostIds, body \in FieldPatches :
    update_post(u, p, body) /\ reqs' = <<Req("update_post", u, p, body)>>
RemovePost == \E p \in PostIds :
    delete_post(2, p) /\ reqs' = <<Req("delete_post", 2, p, <<>>)>>

NextPatch == WritePost \/ PatchPost \/ RemovePost

SpecPatch == Init /\ [][NextPatch]_vars

(* ---------------- tokens issued by login ---------------- *)
\* pwd_context.verify: the plain password hashes to the stored value.
verify_password(plain, hashed) == get_password_hash(plain) = hashed

\* POST /auth/login: 401 for an unknown username or a wrong password, else a
\* token whose subject is the username stored at that moment.  reqs keeps the
\* tokens issued, each with the id of the user it was issued to.
login(name, password) ==
    IF UserNamed(name) = Anon \/ ~verify_password(password, users[UserNamed(name)].password)
    THEN resp' = Resp("login", Anon, 0, 401, <<>>) /\ UNCHANGED <<db, reqs>>
    ELSE /\ Len(reqs) < MaxReqs
         /\ reqs' = Append(reqs, Req("login", UserNamed(name), 0, Tok(name)))
         /\ resp' = Resp("login", UserNamed(name), 0, 200, <<>>)
         /\ UNCHANGED db

NewcomerBodies == [username : Usernames, email : Emails, password : {GoodPassword}, role : {NoRole}]

Login == \E name \in Usernames, pw \in {GoodPassword, WeakPassword} : login(name, pw)
Newcomer == \E body \in NewcomerBodies : register_user(body) /\ UNCHANGED reqs
RenameUser == \E u \in DOMAIN users : update_user_profile(u, Rename) /\ UNCHANGED reqs
\* GET /me with a token issued earlier.
UseToken == \E r \in DOMAIN reqs :
    /\ IF get_current_user(reqs[r].arg) = Anon
       THEN credentials_exception("read_users_me", r)
       ELSE Answers([read_users_me(get_current_user(reqs[r].arg)) EXCEPT !.target = r])
    /\ UNCHANGED reqs

NextTokens == Login \/ Newcomer \/ RenameUser \/ UseToken

SpecTokens == Init /\ [][NextTokens]_vars

(* ---------------- inserts racing with delete_post ---------------- *)
\* create_comment in two steps: the lookup of the post, then the INSERT and
\* commit.  SQLite checks no foreign key here: the INSERT goes through whether
\* or not the post is still stored.
begin_create_comment(u, p, content) ==
    IF p \notin DOMAIN posts
    THEN resp' = Resp("create_comment", u, p, 404, <<>>) /\ UNCHANGED <<db, reqs>>
    ELSE /\ Len(reqs) < MaxReqs
         /\ reqs' = Append(reqs, Req("create_comment", u, p, content))
         /\ UNCHANGED <<db, resp>>

commit_create_comment(r) ==
    /\ Pending(r, "create_comment")
    /\ Cardinality(DOMAIN comments) < MaxComments
    /\ comments' = Put(comments, NextId(DOMAIN comments),
                       [content |-> reqs[r].arg, post_id |-> reqs[r].target, author_id |-> reqs[r].who])
    /\ Answer(r, 201)
    /\ UNCHANGED <<users, statuses, posts, tags, post_tags, likes>>

BeginCreateComment == \E u \in {2, 3}, p \in PostIds : begin_create_comment(u, p, <<"c">>)
CommitCreateComment == \E r \in 1..MaxReqs : commit_create_comment(r)
LikeLookup == \E u \in {2, 3}, p \in PostIds : begin_like_post(u, p)
DeleteMeanwhile == \E u \in {1, 2}, p \in PostIds : delete_post(u, p) /\ UNCHANGED reqs

NextOrphans ==
    \/ BeginCreateComment \/ CommitCreateComment
    \/ LikeLookup \/ CommitLikePost
    \/ DeleteMeanwhile

SpecOrphans == InitRace /\ [][NextOrphans]_vars

(* ---------------- sessions ---------------- *)
\* get_db is a generator dependency: SessionLocal() makes a session for the
\* request, the route (its dependencies and its handler) runs at the yield,
\* and the finally block closes the session whichever way the route ended.
\* A request in reqs carries its session in arg: the session's identity, whether
\* it is open, and where the request stands (handler, finally, done).
Session(sid) == [sid |-> sid, state |-> "open", at |-> "handler"]
SessionIds == {reqs[r].arg.sid : r \in DOMAIN reqs}
Finished(r) == r \in DOMAIN reqs /\ reqs[r].arg.at = "done"

\* The slot a new request takes: a new one, or the slot of a request that is over.
FreeSlots == {r \in 1..MaxReqs : r = Len(reqs) + 1 \/ Finished(r)}

\* db = SessionLocal(); yield db
get_db(op, who, target) ==
    /\ NextId(SessionIds) <= MaxSessions
    /\ \E r \in FreeSlots :
          reqs' = [k \in DOMAIN reqs \cup {r} |->
                      IF k = r THEN Req(op, who, target, Session(NextId(SessionIds))) ELSE reqs[k]]
    /\ UNCHANGED <<db, resp>>

\* The route of request r runs on the request's session, up to its response or exception.
route(r) ==
    /\ r \in DOMAIN reqs /\ reqs[r].arg.at = "handler"
    /\ IF reqs[r].who = Anon THEN credentials_exception(reqs[r].op, reqs[r].target)
       ELSE IF reqs[r].op = "like_post" THEN like_post(reqs[r].who, reqs[r].target)
       ELSE IF reqs[r].op = "delete_post" THEN delete_post(reqs[r].who, reqs[r].target)
       ELSE create_status(reqs[r].who, "archived")
    /\ reqs' = [reqs EXCEPT ![r].code = resp'.code, ![r].arg.at = "finally"]

\* A get_db whose close follows the yield without a finally: an exception
\* raised by the route skips it.
get_db_close_after_yield(r) ==
    /\ r \in DOMAIN reqs /\ reqs[r].arg.at = "finally"
    /\ reqs' = [reqs EXCEPT ![r].arg.at = "done",
                            ![r].arg.state = IF reqs[r].code < 400 THEN "closed" ELSE "open"]
    /\ UNCHANGED <<db, resp>>

\* finally: db.close(); whatever the rest of the block raises is swallowed.
get_db_finally(r) ==
    /\ r \in DOMAIN reqs /\ reqs[r].arg.at = "finally"
    /\ reqs' = [reqs EXCEPT ![r].arg.at = "done", ![r].arg.state = "closed"]
    /\ UNCHANGED <<db, resp>>

SessionRequests == {"like_post", "delete_post", "create_status"} \X {Anon, 1, 3}

Acquire == \E q \in SessionRequests : get_db(q[1], q[2], 1)
Route == \E r \in 1..MaxReqs : route(r)
Release == \E r \in 1..MaxReqs : get_db_finally(r)

NextSessions == Acquire \/ Route \/ Release

\* A request runs synchronously to its end: neither its route nor its finally
\* block waits for anything.
SpecSessions ==
    /\ InitRace /\ [][NextSessions]_vars
    /\ \A r \in 1..MaxReqs : WF_vars(route(r)) /\ WF_vars(get_db_finally(r))

(* ---------------- the visibility rule of the specification ---------------- *)
IsPublished(p) ==
    posts[p].status_id \in DOMAIN statuses /\ statuses[posts[p].status_id] = "published"
IsDraft(p) ==
    posts[p].status_id \in DOMAIN statuses /\ statuses[posts[p].status_id] = "draft"
CanView(u, p) ==
    IF u = Anon THEN IsPublished(p)
    ELSE users[u].role = "admin" \/ posts[p].author_id = u \/ IsPublished(p)
CanMutate(u, owner) == users[u].role = "admin" \/ u = owner

\* C1: get_post answers 200 with the post exactly when the post exists and is
\* visible to the caller (anonymous: published; admin: always; other users:
\* own or published); every other call is answered 404, never 403.
C1_GetPostVisibility ==
    \A u \in Principals, p \in PostIds :
        LET r == get_post(u, p)
        IN  IF p \in DOMAIN posts /\ CanView(u, p)
            THEN r.code = 200 /\ r.items = <<p>>
            ELSE r.code = 404 /\ r.items = <<>>

\* A logged-in caller who is neither admin nor the author was refused an existing post.
C1_Witness ==
    /\ resp.op = "get_post" /\ resp.code = 404
    /\ resp.who # Anon /\ resp.target \in DOMAIN posts
    /\ users[resp.who].role # "admin"

ReadOps == {"get_post", "list_posts", "get_post_with_like_status", "get_posts_by_tag",
            "list_user_liked_posts"}

\* C2: no read operation hands a draft post to anyone but its author or an
\* admin; an anonymous caller never receives a draft.
C2_NoDraftLeak ==
    (resp.op \in ReadOps /\ resp.code = 200) =>
        \A p \in Range(resp.items) :
            (p \in DOMAIN posts /\ IsDraft(p)) =>
                /\ resp.who # Anon
                /\ (users[resp.who].role = "admin" \/ posts[p].author_id = resp.who)

\* C3: list_posts returns only posts visible to the caller, and a search term
\* only narrows the listing: never more rows than the unfiltered listing, and
\* never a post that is not published to an anonymous caller.
C3_ListPostsVisibleOnly ==
    \A u \in Principals, s \in Searches, a \in PageArgs :
        LET r == list_posts(u, s, a[1], a[2])
            all == list_posts(u, <<>>, a[1], a[2])
        IN  /\ r.code = 200
            /\ \A i \in Range(r.items) : i \in DOMAIN posts /\ CanView(u, i)
            /\ Range(r.items) \subseteq {p \in DOMAIN posts : CanView(u, p)}
            /\ r.info.total <= all.info.total
            /\ r.info.total <= Cardinality({p \in DOMAIN posts : CanView(u, p)})
            /\ (u = Anon => \A i \in Range(r.items) : IsPublished(i))

\* An anonymous search whose term matches the title of a draft, answered with
\* other posts only.
C3_Witness ==
    /\ resp.op = "list_posts" /\ resp.who = Anon /\ resp.query # <<>>
    /\ resp.items # <<>>
    /\ \E p \in DOMAIN posts :
          /\ IsDraft(p) /\ ilike(posts[p].title, resp.query)
          /\ p \notin Range(resp.items)
NamesOf(ts, tgs) == {tgs[t] : t \in ts}
TagRowsKept == \A t \in DOMAIN tags : t \in DOMAIN tags' /\ tags'[t] = tags[t]
\* Every named tag already stored is the one used; a Tag row is inserted only
\* for a name that had none.
ResolvedByName(p, names) ==
    /\ TagRowsKept
    /\ \A t \in DOMAIN tags : tags[t] \in Range(names) => CopiesIn(<<p, t>>, post_tags') > 0
    /\ \A t \in DOMAIN tags' \ DOMAIN tags :
          /\ tags'[t] \in Range(names)
          /\ \A o \in DOMAIN tags : tags[o] # tags'[t]
          /\ CopiesIn(<<p, t>>, post_tags') > 0

\* C4: update and delete of an existing post or comment go through (200)
\* exactly when the caller is an admin or the resource's author; any other
\* logged-in caller is answered 403 and nothing stored changes.
C4_MutateIffPermitted ==
    [][/\ (resp'.op \in {"update_post", "delete_post"} /\ resp'.target \in DOMAIN posts) =>
            IF CanMutate(resp'.who, posts[resp'.target].author_id)
            THEN resp'.code = 200
            ELSE resp'.code = 403 /\ UNCHANGED db
       /\ (/\ resp'.op \in {"update_comment", "delete_comment"}
           /\ resp'.target \in DOMAIN posts
           /\ FindComment(resp'.target, resp'.query)) =>
            IF CanMutate(resp'.who, comments[resp'.query].author_id)
            THEN resp'.code = 200
            ELSE resp'.code = 403 /\ UNCHANGED db]_vars

\* C6: for an existing post, like_post goes through (201, one Like row added)
\* exactly when the caller has no Like on the post and is answered 409
\* otherwise; unlike_post goes through (200) exactly when the caller has a Like
\* on the post, after which no Like of the pair is left, and is answered 404
\* otherwise; a refused call changes nothing.
C6_LikeUnlikeSequential ==
    [][\A u \in DOMAIN users, p \in PostIds :
        (u = resp'.who /\ p = resp'.target) =>
            /\ (resp'.op = "like_post" /\ p \in DOMAIN posts) =>
                  IF CopiesIn(<<p, u>>, likes) = 0
                  THEN resp'.code = 201 /\ likes' = likes (+) OneLike(p, u)
                       /\ UNCHANGED <<users, statuses, posts, tags, post_tags, comments>>
                  ELSE resp'.code = 409 /\ UNCHANGED db
            /\ resp'.op = "unlike_post" =>
                  IF CopiesIn(<<p, u>>, likes) > 0
                  THEN resp'.code = 200 /\ CopiesIn(<<p, u>>, likes') = 0
                       /\ likes' (+) OneLike(p, u) = likes
                       /\ UNCHANGED <<users, statuses, posts, tags, post_tags, comments>>
                  ELSE resp'.code = 404 /\ UNCHANGED db]_vars

\* An unlike went through and left the pair without a Like while another
\* account's Like on the same post stays.
C6_Witness ==
    /\ resp.op = "unlike_post" /\ resp.code = 200
    /\ CopiesIn(<<resp.target, resp.who>>, likes) = 0
    /\ \E u \in DOMAIN users : CopiesIn(<<resp.target, u>>, likes) = 1

\* C7: no two Tag rows ever carry the same name; create_tag answers an existing
\* name with 409 and adds no row; create_post and update_post attach the stored
\* Tag of each named tag and insert a Tag only for a name that has none.
C7_TagNamesUnique ==
    /\ [](\A t1, t2 \in DOMAIN tags : tags[t1] = tags[t2] => t1 = t2)
    /\ [][resp'.op = "create_tag" =>
            \A name \in TagNames :
                (create_tag(resp'.who, name) /\ \E t \in DOMAIN tags : tags[t] = name)
                    => (resp'.code = 409 /\ UNCHANGED db)]_vars
    /\ [][(resp'.op = "create_post" /\ resp'.code = 201) =>
            \A body \in TagPostBodies :
                create_post(resp'.who, body) => ResolvedByName(resp'.target, body.tags)]_vars
    /\ [][(resp'.op = "update_post" /\ resp'.code = 200) =>
            \A body \in TagPatches :
                (update_post(resp'.who, resp'.target, body) /\ body.tags.kind = "val")
                    => ResolvedByName(resp'.target, body.tags.val)]_vars

\* create_tag was answered 409 for a name that is stored.
C7_Witness ==
    /\ resp.op = "create_tag" /\ resp.code = 409
    /\ Cardinality(DOMAIN tags) = MaxTags
    /\ \E p \in DOMAIN posts : Cardinality(TagsOf(p)) = 2

\* C9: a successful update_post that omits tags leaves the post's tag links as
\* they were; one that supplies tags leaves the post linked to exactly the tags
\* named (none for the empty list); no Tag row is deleted or renamed.
C9_UpdateReplacesTags ==
    [][(resp'.op = "update_post" /\ resp'.code = 200) =>
        \A body \in TagPatches, p \in PostIds :
            (p = resp'.target /\ update_post(resp'.who, p, body)) =>
                /\ body.tags.kind = "unset" =>
                      /\ TagsOf(p)' = TagsOf(p)
                      /\ \A t \in DOMAIN tags :
                            CopiesIn(<<p, t>>, post_tags') = CopiesIn(<<p, t>>, post_tags)
                /\ body.tags.kind = "val" =>
                      NamesOf(TagsOf(p)', tags') = Range(body.tags.val)
                /\ body.tags = V(<<>>) => TagsOf(p)' = {}
                /\ TagRowsKept
                /\ \A q \in DOMAIN posts \ {p}, t \in DOMAIN tags :
                      CopiesIn(<<q, t>>, post_tags') = CopiesIn(<<q, t>>, post_tags)]_vars

\* An update with tags: [] went through and left a stored Tag unattached.
C9_Witness ==
    /\ resp.op = "update_post" /\ resp.code = 200
    /\ resp.query = V(<<>>)
    /\ TagsOf(resp.target) = {}
    /\ tags # <<>>

\* C10: create_post naming a status_id that is not stored is answered 404 and
\* changes no table, whatever tags it names.
C10_BadStatusPersistsNothing ==
    [][resp'.op = "create_post" =>
        \A body \in TagPostBodies :
            (create_post(resp'.who, body) /\ body.status_id \notin DOMAIN statuses)
                => (resp'.code = 404 /\ UNCHANGED db)]_vars

\* create_post was refused with 404 while posts and tags are stored.
C10_Witness ==
    /\ resp.op = "create_post" /\ resp.code = 404
    /\ posts # <<>> /\ tags # <<>>
\* C5: at most one Like row per (post, user) pair, overlapping requests included.
C5_OneLikePerPair == \A e \in BagToSet(likes) : CopiesIn(e, likes) <= 1

Collide(a, b) ==
    /\ a.op = b.op
    /\ \/ a.op = "create_tag" /\ a.arg = b.arg
       \/ a.op = "register_user"
          /\ (a.arg.username = b.arg.username \/ a.arg.email = b.arg.email)
ConflictCodes == {400, 409}

\* C8: of two overlapping create_tag requests for one name, or register
\* requests for one username or email, that both passed the lookup, one is
\* answered 201 and the other with a conflict, never with another error.
C8_RaceLoserGetsConflict ==
    \A a, b \in DOMAIN reqs :
        (a # b /\ Collide(reqs[a], reqs[b]) /\ reqs[a].code # 0 /\ reqs[b].code # 0) =>
            \/ reqs[a].code = 201 /\ reqs[b].code \in ConflictCodes
            \/ reqs[b].code = 201 /\ reqs[a].code \in ConflictCodes

\* Page and limit values probed against every stored state: first, middle and
\* past-the-end pages.
PageProbes == {<<1, 1>>, <<1, 2>>, <<2, 1>>, <<2, 2>>, <<3, 1>>}
Ceil(a, b) == IF a % b = 0 THEN a \div b ELSE a \div b + 1
ExactPage(r, size, page, limit) ==
    /\ r.info.total = size
    /\ r.info.pages = Ceil(size, limit)
    /\ r.info.current_page = page
    /\ Len(r.items) = Min({limit, Max({0, size - (page - 1) * limit})})

\* C11: a paginated listing reports total = the number of posts in the filtered
\* set, pages = ceil(total / limit), current_page = page, and hands back exactly
\* min(limit, max(0, total - (page - 1) * limit)) items.
C11_PaginationExact ==
    \A u \in Principals, a \in PageProbes :
        /\ ExactPage(list_posts(u, <<>>, a[1], a[2]),
                     Cardinality(filter_published_posts(DOMAIN posts, u)), a[1], a[2])
        /\ \A t \in DOMAIN tags :
              ExactPage(get_posts_by_tag(u, t, "", a[1], a[2]),
                        Cardinality(filter_published_posts(
                            {p \in DOMAIN posts : CopiesIn(<<p, t>>, post_tags) > 0}, u)),
                        a[1], a[2])

LikesOn(p, lk) == {e \in BagToSet(lk) : e[1] = p}
CommentsOn(p, cs) == {c \in DOMAIN cs : cs[c].post_id = p}

\* C12: a successful delete_post of P leaves no Comment, Like or post_tags row
\* of P, keeps every Tag and Status row, and leaves the other posts with their
\* comments, likes and tag links as they were.
C12_DeleteCascades ==
    [][(resp'.op = "delete_post" /\ resp'.code = 200) =>
          /\ DOMAIN posts' = DOMAIN posts \ {resp'.target}
          /\ \A c \in DOMAIN comments' : comments'[c].post_id # resp'.target
          /\ \A e \in BagToSet(likes') : e[1] # resp'.target
          /\ \A e \in BagToSet(post_tags') : e[1] # resp'.target
          /\ tags' = tags
          /\ statuses' = statuses
          /\ \A q \in DOMAIN posts' : posts'[q] = posts[q]
          /\ \A c \in DOMAIN comments :
                comments[c].post_id # resp'.target => (c \in DOMAIN comments' /\ comments'[c] = comments[c])
          /\ \A e \in BagToSet(likes) :
                e[1] # resp'.target => CopiesIn(e, likes') = CopiesIn(e, likes)
          /\ \A e \in BagToSet(post_tags) :
                e[1] # resp'.target => CopiesIn(e, post_tags') = CopiesIn(e, post_tags)]_vars

\* A tagged post was deleted (its Tag row is left without any link) while
\* another post keeps its comment, its like and its tag link.
C12_Witness ==
    /\ resp.op = "delete_post" /\ resp.code = 200
    /\ \E t \in DOMAIN tags : \A e \in BagToSet(post_tags) : e[2] # t
    /\ \E q \in DOMAIN posts :
          /\ CommentsOn(q, comments) # {}
          /\ LikesOn(q, likes) # {}
          /\ \E e \in BagToSet(post_tags) : e[1] = q

HeldByOther(u, body) ==
    \/ body.username.kind = "val" /\ \E i \in DOMAIN users \ {u} : users[i].username = body.username.val
    \/ body.email.kind = "val" /\ \E i \in DOMAIN users \ {u} : users[i].email = body.email.val

\* C13: with register and update_user_profile run one after another, no two
\* users ever share a username or an email; a well-formed register naming a
\* used username or email is answered 400, an update_user_profile to a username
\* or email of another user is answered 400, and a call that is not answered
\* 200 / 201 leaves every stored row as it was.
C13_UniqueAccounts ==
    /\ [](\A i, j \in DOMAIN users :
             i # j => (users[i].username # users[j].username /\ users[i].email # users[j].email))
    /\ [][(resp'.op = "register_user" /\ UserCreateValid(resp'.query)
           /\ (UsernameTaken(resp'.query.username) \/ EmailTaken(resp'.query.email))) =>
              (resp'.code = 400 /\ UNCHANGED db)]_vars
    /\ [][(resp'.op = "update_user_profile" /\ UserUpdateValid(resp'.query)
           /\ HeldByOther(resp'.who, resp'.query)) =>
              (resp'.code = 400 /\ UNCHANGED db)]_vars
    /\ [][(resp'.op \in {"register_user", "update_user_profile"} /\ resp'.code \notin {200, 201}) =>
              UNCHANGED db]_vars

\* A newly registered account asked for the username of another account and
\* was refused.
C13_Witness ==
    /\ resp.op = "update_user_profile" /\ resp.code = 400
    /\ resp.who > 3
    /\ resp.query.username.kind = "val"
    /\ resp.query.password.kind = "unset" /\ resp.query.email.kind = "unset"
    /\ \E i \in DOMAIN users \ {resp.who} : users[i].username = resp.query.username.val

\* C14: self-registration never stores an admin: whatever role a register call
\* supplies, the only admin is the seeded one (user 1).
C14_NoSelfMadeAdmin ==
    \A i \in DOMAIN users : users[i].role = "admin" => i = 1

\* C15: every stored User has a role among admin, author, reader; a register or
\* update_user_profile body with any other role value is refused (422) and
\* stores nothing; a registration without a role stores the user as reader.
C15_RolesValid ==
    /\ [](\A i \in DOMAIN users : users[i].role \in {"admin", "author", "reader"})
    /\ [][(resp'.op = "register_user" /\ resp'.query.role \notin UserRoles \cup {NoRole}) =>
              (resp'.code = 422 /\ UNCHANGED db)]_vars
    /\ [][(resp'.op = "update_user_profile" /\ resp'.query.role.kind = "val"
           /\ resp'.query.role.val \notin UserRoles) =>
              (resp'.code = 422 /\ UNCHANGED db)]_vars
    /\ [][(resp'.op = "register_user" /\ resp'.query.role = NoRole
           /\ UserCreateValid(resp'.query) /\ validate_password(resp'.query.password)
           /\ ~UsernameTaken(resp'.query.username) /\ ~EmailTaken(resp'.query.email)) =>
              /\ resp'.code = 201
              /\ Len(users') = Len(users) + 1
              /\ users'[Len(users')].role = "reader"
              /\ users'[Len(users')].username = resp'.query.username]_vars

\* A registration without a role went through and the account is a reader.
C15_Witness ==
    /\ resp.op = "register_user" /\ resp.code = 201 /\ resp.query.role = NoRole
    /\ resp.target \in DOMAIN users /\ users[resp.target].role = "reader"

MayFilterByStatus(u) == u # Anon /\ users[u].role \in {"admin", "author"}

\* C16: get_posts_by_tag with a status filter is accepted only for an admin or
\* an author; an anonymous caller or a reader is answered 403 and gets no
\* posts.  Without a status filter only posts visible to the caller come back.
C16_StatusFilterForbidden ==
    resp.op = "get_posts_by_tag" =>
        /\ resp.query # "" =>
              IF MayFilterByStatus(resp.who) THEN resp.code # 403
              ELSE resp.code = 403 /\ resp.items = <<>>
        /\ (resp.query = "" /\ resp.code = 200) =>
              \A p \in Range(resp.items) : p \in DOMAIN posts /\ CanView(resp.who, p)

\* C16, with the tag lookup that comes first: for a tag id without a Tag row
\* every caller is answered 404; for a stored tag a status filter is answered
\* 200 for an admin or an author and 403 without posts for an anonymous caller
\* or a reader, and without a status filter only posts visible to the caller
\* and carrying the tag come back.
C16_StatusFilterOnStoredTag ==
    resp.op = "get_posts_by_tag" =>
        IF resp.target \notin DOMAIN tags THEN resp.code = 404 /\ resp.items = <<>>
        ELSE /\ resp.query # "" =>
                   IF MayFilterByStatus(resp.who)
                   THEN /\ resp.code = 200
                        /\ \A p \in Range(resp.items) :
                              p \in DOMAIN posts /\ statuses[posts[p].status_id] = resp.query
                   ELSE resp.code = 403 /\ resp.items = <<>>
             /\ resp.query = "" =>
                   /\ resp.code = 200
                   /\ \A p \in Range(resp.items) :
                         /\ p \in DOMAIN posts /\ CanView(resp.who, p)
                         /\ CopiesIn(<<p, resp.target>>, post_tags) > 0

\* A reader asked for the drafts under a tag that a draft of another user
\* carries, and was refused.
C16_Witness ==
    /\ resp.op = "get_posts_by_tag" /\ resp.code = 403 /\ resp.query = "draft"
    /\ resp.who # Anon /\ users[resp.who].role = "reader"
    /\ resp.target \in DOMAIN tags
    /\ \E p \in DOMAIN posts :
          /\ IsDraft(p) /\ posts[p].author_id # resp.who
          /\ CopiesIn(<<p, resp.target>>, post_tags) > 0

PostIdOps == {"get_post", "get_post_with_like_status", "get_post_likes", "list_post_comments",
              "update_post", "delete_post", "create_comment", "like_post"}

\* C18: an operation that takes a post id answers a post that exists but is
\* not visible to the caller exactly as it answers a post id that is not
\* stored: with 404.
C18_HiddenLooksAbsent ==
    (/\ resp.op \in PostIdOps
     /\ resp.target \in DOMAIN posts
     /\ ~CanView(resp.who, resp.target)) => resp.code = 404

\* The Like rows stored for post p, counted user by user.
RECURSIVE LikeRowsBy(_, _)
LikeRowsBy(p, us) ==
    IF us = {} THEN 0
    ELSE LET u == CHOOSE x \in us : TRUE
         IN  CopiesIn(<<p, u>>, likes) + LikeRowsBy(p, us \ {u})

\* C19: the likes_count reported for a post (Post.likes_count, get_post_likes,
\* get_post_with_like_status) is the number of Like rows stored for the post,
\* and is_liked is true exactly when a Like row of the caller for the post is
\* stored.
C19_LikesCountDerived ==
    /\ \A p \in DOMAIN posts : likes_count(p) = LikeRowsBy(p, DOMAIN users)
    /\ (resp.op \in {"get_post_likes", "get_post_with_like_status"} /\ resp.code = 200) =>
          resp.info.likes_count = LikeRowsBy(resp.target, DOMAIN users)
    /\ (resp.op = "get_post_with_like_status" /\ resp.code = 200) =>
          (resp.info.is_liked <=> (resp.who # Anon /\ CopiesIn(<<resp.target, resp.who>>, likes) > 0))

\* Two users like a post, another post has a like of its own, and the count
\* asked for the first post is 2.
C19_Witness ==
    /\ resp.op = "get_post_likes" /\ resp.code = 200 /\ resp.info.likes_count = 2
    /\ \E q \in DOMAIN posts : q # resp.target /\ LikeRowsBy(q, DOMAIN users) = 1

AuthRequired == {"create_post", "update_post", "delete_post", "create_comment", "update_comment",
                 "delete_comment", "like_post", "unlike_post", "create_tag", "create_status",
                 "read_users_me", "update_user_profile", "list_user_posts", "list_user_comments",
                 "list_user_liked_posts"}
AuthOptional == {"list_posts", "get_post", "get_posts_by_tag"}
\* The token of the request is missing, rejected by jwt.decode, or names no stored user.
Unusable(tok) == tok.kind # "jwt" \/ \A i \in DOMAIN users : users[i].username # tok.sub

\* C20: a mutating or self-profile operation called with a missing, invalid or
\* unresolvable token is answered 401 and leaves every table unchanged, and
\* is answered 401 only then; list_posts, get_post and get_posts_by_tag serve
\* such a caller as anonymous.
C20_UnauthenticatedRejected ==
    /\ [][(reqs' # <<>> /\ reqs'[1].op \in AuthRequired) =>
              /\ resp'.op = reqs'[1].op
              /\ IF Unusable(reqs'[1].arg)
                 THEN resp'.code = 401 /\ UNCHANGED db
                 ELSE /\ resp'.code # 401
                      /\ resp'.who \in DOMAIN users
                      /\ users[resp'.who].username = reqs'[1].arg.sub]_vars
    /\ [][(reqs' # <<>> /\ reqs'[1].op \in AuthOptional /\ Unusable(reqs'[1].arg)) =>
              (resp'.op = reqs'[1].op /\ resp'.who = Anon /\ resp'.code # 401 /\ UNCHANGED db)]_vars

\* The token issued to bob is sent to delete a stored post after bob changed
\* his username: it resolves to nobody and the call is answered 401.
C20_Witness ==
    /\ reqs # <<>> /\ reqs[1].op = "delete_post" /\ reqs[1].arg = Tok("bob")
    /\ resp.code = 401
    /\ reqs[1].target \in DOMAIN posts
    /\ \A i \in DOMAIN users : users[i].username # "bob"

\* C21: post_tags never stores the same (post, tag) pair twice, whatever tags
\* list create_post or update_post was given.
C21_NoDuplicateLinks ==
    \A e \in BagToSet(post_tags) : CopiesIn(e, post_tags) = 1

\* C22: create_comment answers 201 and stores the comment on every stored
\* post, whatever its status and whoever wrote it, and answers 404 with
\* nothing stored only when the post is not stored; list_post_comments
\* returns the comments of a post exactly when the post is stored with the
\* published status and answers 404 otherwise, for every caller.
C22_CommentOnAnyPost ==
    /\ [][resp'.op = "create_comment" =>
            IF resp'.target \in DOMAIN posts
            THEN /\ resp'.code = 201
                 /\ \E c \in DOMAIN comments' \ DOMAIN comments :
                        /\ comments'[c].post_id = resp'.target
                        /\ comments'[c].author_id = resp'.who
                        /\ comments' = Put(comments, c, comments'[c])
            ELSE resp'.code = 404 /\ UNCHANGED db]_vars
    /\ [][resp'.op = "list_post_comments" =>
            /\ UNCHANGED db
            /\ IF resp'.target \in DOMAIN posts /\ posts[resp'.target].status_id = 2
               THEN /\ resp'.code = 200
                    /\ Range(resp'.items) = {c \in DOMAIN comments : comments[c].post_id = resp'.target}
                    /\ Len(resp'.items) = Cardinality(Range(resp'.items))
               ELSE resp'.code = 404 /\ resp'.items = <<>>]_vars

\* Eve, a reader, has commented on a draft of bob that she cannot read.
C22_Witness ==
    /\ resp.op = "create_comment" /\ resp.code = 201 /\ resp.who = 3
    /\ resp.target \in DOMAIN posts
    /\ posts[resp.target].status_id = 1 /\ posts[resp.target].author_id = 2
    /\ \E c \in DOMAIN comments : comments[c].post_id = resp.target /\ comments[c].author_id = 3

\* The comments of a draft are asked for and the answer is 404 although the draft holds one.
C22_WitnessHidden ==
    /\ resp.op = "list_post_comments" /\ resp.code = 404
    /\ resp.target \in DOMAIN posts
    /\ \E c \in DOMAIN comments : comments[c].post_id = resp.target

\* C23: every operation runs on a session of its own; a request that is over,
\* whether it ended in success, in a 4xx answer or in an unexpected error, has
\* its session closed, and every session opened is eventually closed.
C23_SessionsReleased ==
    /\ [](\A r \in DOMAIN reqs : reqs[r].arg.at = "done" => reqs[r].arg.state = "closed")
    /\ [](\A r, q \in DOMAIN reqs : r # q => reqs[r].arg.sid # reqs[q].arg.sid)
    /\ \A r \in 1..MaxReqs :
          (r \in DOMAIN reqs /\ reqs[r].arg.state = "open")
              ~> (r \in DOMAIN reqs /\ reqs[r].arg.state = "closed")

\* One request ended in the uncaught IntegrityError of create_status and another
\* in a 403; both are over with their sessions closed.
C23_Witness ==
    \E r, q \in DOMAIN reqs :
        /\ reqs[r].code = 500 /\ reqs[r].arg.at = "done" /\ reqs[r].arg.state = "closed"
        /\ reqs[q].code = 403 /\ reqs[q].arg.at = "done" /\ reqs[q].arg.state = "closed"

\* The value a field of the row has after a successful update: the supplied
\* value, NULL for a supplied null, the stored value for an omitted field.
Supplied(field, old) ==
    IF field.kind = "unset" THEN old ELSE IF field.kind = "val" THEN field.val ELSE Null

\* C24: a successful update_post sets title, content and status_id to the
\* values the request supplies and leaves every omitted field, the author and
\* every other post as they were.
C24_PartialUpdate ==
    [][(resp'.op = "update_post" /\ resp'.code = 200) =>
          /\ DOMAIN posts' = DOMAIN posts
          /\ \A p \in DOMAIN posts : p # resp'.target => posts'[p] = posts[p]
          /\ posts'[resp'.target] =
                [title |-> Supplied(reqs'[1].arg.title, posts[resp'.target].title),
                 content |-> Supplied(reqs'[1].arg.content, posts[resp'.target].content),
                 author_id |-> posts[resp'.target].author_id,
                 status_id |-> Supplied(reqs'[1].arg.status_id, posts[resp'.target].status_id)]]_vars

\* A published post has been updated with a new content alone: title and status stayed.
C24_Witness ==
    /\ resp.op = "update_post" /\ resp.code = 200
    /\ reqs[1].arg.content = V(<<"c">>) /\ reqs[1].arg.title = U /\ reqs[1].arg.status_id = U
    /\ posts[resp.target].content = <<"c">>
    /\ posts[resp.target].title = <<"b">>
    /\ posts[resp.target].status_id = 2

\* C29: the status_id of every stored post is the id of a stored Status row;
\* an update_post naming a status that is not stored is refused and the post
\* keeps its status.
C29_StatusExists ==
    /\ [](\A p \in DOMAIN posts : posts[p].status_id \in DOMAIN statuses)
    /\ [][(resp'.op = "update_post" /\ reqs'[1].arg.status_id.kind = "val"
             /\ reqs'[1].arg.status_id.val \notin DOMAIN statuses)
          => (resp'.code >= 400 /\ UNCHANGED db)]_vars

\* C25: create_status stores a Status row only for a caller whose role is
\* admin; every authenticated caller with another role is answered 403 and
\* the Status rows stay as they were.
C25_StatusAdminOnly ==
    [][resp'.op = "create_status" =>
          /\ statuses' # statuses =>
                /\ resp'.who # Anon /\ users[resp'.who].role = "admin"
                /\ resp'.code = 201
                /\ Len(statuses') = Len(statuses) + 1
                /\ SubSeq(statuses', 1, Len(statuses)) = statuses
          /\ (resp'.who # Anon /\ users[resp'.who].role # "admin") =>
                (resp'.code = 403 /\ UNCHANGED db)]_vars

\* Eve, a reader, is refused after the admin has stored a third status.
C25_Witness ==
    /\ resp.op = "create_status" /\ resp.code = 403 /\ resp.who = 3
    /\ Len(statuses) = 3

\* The request names a field that differs from the stored one, so the handler
\* assigns it before it reaches the step that rejects the request.
AssignedBeforeReject(body, cur) ==
    \/ /\ body.username.kind = "val" /\ body.username.val # cur.username
       /\ ~UsernameTaken(body.username.val)
       /\ \/ (body.email.kind = "val" /\ body.email.val # cur.email /\ EmailTaken(body.email.val))
          \/ (body.password.kind = "val" /\ ~validate_password(body.password.val))
    \/ /\ body.email.kind = "val" /\ body.email.val # cur.email /\ ~EmailTaken(body.email.val)
       /\ SetUsername(cur, body.username).ok
       /\ body.password.kind = "val" /\ ~validate_password(body.password.val)

\* C28: an update_user_profile rejected at a later step, after an earlier
\* field of the same request was assigned, stores nothing: the caller's
\* username, email and password, and every table, are as before the call.
C28_ProfileAllOrNothing ==
    [][(resp'.op = "update_user_profile" /\ resp'.code # 200) =>
          /\ UNCHANGED db
          /\ (UserUpdateValid(resp'.query) /\ AssignedBeforeReject(resp'.query, users[resp'.who]))
                => resp'.code = 400]_vars

\* Bob asked for the free username kim together with the email of eve: refused, still bob.
C28_Witness ==
    /\ resp.op = "update_user_profile" /\ resp.code = 400
    /\ resp.query.username = V("kim") /\ resp.query.email = V("eve@example.com")
    /\ users[resp.who].username = "bob" /\ users[resp.who].email = "bob@example.com"
    /\ \A i \in DOMAIN users : users[i].username # "kim"

\* C30: update_user_profile changes neither the role nor the id of the caller
\* nor any other user, whatever its body holds, a role field included.
C30_ProfileKeepsRole ==
    [][resp'.op = "update_user_profile" =>
          /\ DOMAIN users' = DOMAIN users
          /\ \A i \in DOMAIN users : i # resp'.who => users'[i] = users[i]
          /\ users'[resp'.who].role = users[resp'.who].role]_vars

\* Bob sent the role admin along with a new username: renamed, still an author.
C30_Witness ==
    /\ resp.op = "update_user_profile" /\ resp.code = 200 /\ resp.who = 2
    /\ resp.query.role = V("admin") /\ resp.query.username = V("kim")
    /\ users[2].username = "kim" /\ users[2].role = "author"

\* C26: a token issued by login to a user authenticates that user or nobody,
\* whatever registrations and profile updates follow: every issued token
\* resolves to the user it was issued to or to no user, and a request made
\* with it is served as that user or answered 401.
C26_TokenKeepsItsUser ==
    /\ [](\A r \in DOMAIN reqs : get_current_user(reqs[r].arg) \in {Anon, reqs[r].who})
    /\ [][resp'.op = "read_users_me" =>
            IF resp'.code = 401 THEN resp'.who = Anon
            ELSE resp'.who = reqs[resp'.target].who]_vars

\* C27: every stored comment and every stored like belongs to a stored post,
\* also when a create_comment or a like_post looked the post up before a
\* delete_post removed it and inserted its row afterwards.
C27_NoOrphanRows ==
    /\ \A c \in DOMAIN comments : comments[c].post_id \in DOMAIN posts
    /\ \A e \in BagToSet(likes) : e[1] \in DOMAIN posts
====
